---- MODULE Spec2Model ----
(***************************************************************************)
(* A model of the AI Roast Master API server (src/server.js): the Whisper  *)
(* model loader (initializeModel), the roast classifier (generateRoast)    *)
(* and the text and audio roast endpoints.                                 *)
(*                                                                         *)
(* A JavaScript string is a sequence of one-character strings, so that     *)
(* toLowerCase, includes and trim are computed character by character.     *)
(* Text that is only ever assembled and compared (the roast sentences and  *)
(* the error messages) is kept as TLA+ strings.                            *)
(***************************************************************************)
EXTENDS Integers, Sequences, FiniteSets, TLC

VARIABLES
    whisperPipeline,  \* "undefined" or "pipeline": the model handle
    modelLoading,     \* the flag of line 51
    modelLoaded,      \* the flag of line 52
    loadsInFlight,    \* pending pipeline(...) promises of initializeModel
    started,          \* startServer has run
    initCalls,        \* calls of initializeModel so far
    noopCalls,        \* calls of initializeModel that returned at line 55
    req,              \* the requests: input, position, response(s)
    topic,            \* the classifier harness: the topic under test
    roastData         \* the classifier harness: the last result

adapterVars == <<whisperPipeline, modelLoading, modelLoaded>>

vars == <<whisperPipeline, modelLoading, modelLoaded, loadsInFlight, started,
          initCalls, noopCalls, req, topic, roastData>>

----------------------------------------------------------------------------
(* Bounds *)

MaxReq == 2
MaxTokens == 3
MaxInitCalls == 3

----------------------------------------------------------------------------
(* JavaScript strings *)

UpperCase ==
    <<"A", "B", "C", "D", "E", "F", "G", "H", "I", "J", "K", "L", "M",
      "N", "O", "P", "Q", "R", "S", "T", "U", "V", "W", "X", "Y", "Z">>

LowerCase ==
    <<"a", "b", "c", "d", "e", "f", "g", "h", "i", "j", "k", "l", "m",
      "n", "o", "p", "q", "r", "s", "t", "u", "v", "w", "x", "y", "z">>

WhiteSpace == {" ", "\t", "\n", "\r"}

lowerChar(c) ==
    IF \E k \in 1..Len(UpperCase) : UpperCase[k] = c
    THEN LowerCase[CHOOSE k \in 1..Len(UpperCase) : UpperCase[k] = c]
    ELSE c

toLowerCase(s) == [i \in 1..Len(s) |-> lowerChar(s[i])]

includes(s, k) ==
    \E i \in 0..(Len(s) - Len(k)) : SubSeq(s, i + 1, i + Len(k)) = k

RECURSIVE trimStart(_)
trimStart(s) ==
    IF s # <<>> /\ Head(s) \in WhiteSpace THEN trimStart(Tail(s)) ELSE s

RECURSIVE trimEnd(_)
trimEnd(s) ==
    IF s # <<>> /\ s[Len(s)] \in WhiteSpace
    THEN trimEnd(SubSeq(s, 1, Len(s) - 1))
    ELSE s

trim(s) == trimEnd(trimStart(s))

\* The characters of s as one piece of text (template-literal interpolation).
RECURSIVE text(_)
text(s) == IF s = <<>> THEN "" ELSE Head(s) \o text(Tail(s))

----------------------------------------------------------------------------
(* generateRoast *)

kFashion == <<"f", "a", "s", "h", "i", "o", "n">>
kCloth == <<"c", "l", "o", "t", "h">>
kDress == <<"d", "r", "e", "s", "s">>
kStyle == <<"s", "t", "y", "l", "e">>
kOutfit == <<"o", "u", "t", "f", "i", "t">>
kFood == <<"f", "o", "o", "d">>
kPizza == <<"p", "i", "z", "z", "a">>
kEat == <<"e", "a", "t">>
kDish == <<"d", "i", "s", "h">>
kPineapple == <<"p", "i", "n", "e", "a", "p", "p", "l", "e">>
kTech == <<"t", "e", "c", "h">>
kCode == <<"c", "o", "d", "e">>
kComputer == <<"c", "o", "m", "p", "u", "t", "e", "r">>
kProgram == <<"p", "r", "o", "g", "r", "a", "m">>
kSing == <<"s", "i", "n", "g">>
kTalent == <<"t", "a", "l", "e", "n", "t">>
kSkill == <<"s", "k", "i", "l", "l">>
kVoice == <<"v", "o", "i", "c", "e">>

roastTemplates ==
    [fashion |-> <<
        "Your fashion sense is so bad, even a scarecrow would give you fashion advice.",
        "If ugly were a crime, your outfit would be a life sentence without parole.",
        "Your style is what happens when a blindfolded person dresses in the dark during a power outage.">>,
     food |-> <<
        "That food choice is so wrong, even the garbage can would reject it.",
        "Your taste in food is what happens when someone lets a toddler plan the menu.",
        "That dish is so bad, it makes cafeteria food look like a Michelin-star meal.">>,
     tech |-> <<
        "Your tech skills are so outdated, you make dial-up internet look cutting edge.",
        "If incompetence were code, you'd be the entire Stack Overflow of failure.",
        "Your coding is so bad, even a broken keyboard would produce better output.">>,
     talent |-> <<
        "Your talent is so limited, it makes a rock look multi-talented.",
        "If failure were an Olympic sport, you'd be the gold medalist, world record holder, and defending champion.",
        "Your skills are so poor, even a participation trophy would feel insulted to be given to you.">>,
     default |-> <<
        "is so disappointing, even my AI feelings got hurt analyzing it.",
        "makes me wish I was a simple calculator instead of dealing with this.",
        "is the reason why aliens won't talk to us.">>]

\* Math.floor(Math.random() * n): Math.random() is in [0, 1).
randomIndex(n) == 0..(n - 1)

\* The if / else-if chain with the food keywords tested first.
categoryOf_FoodFirst(topicLower) ==
    IF includes(topicLower, kFood) \/ includes(topicLower, kPizza)
       \/ includes(topicLower, kEat) \/ includes(topicLower, kDish)
       \/ includes(topicLower, kPineapple)
    THEN "food"
    ELSE IF includes(topicLower, kFashion) \/ includes(topicLower, kCloth)
            \/ includes(topicLower, kDress) \/ includes(topicLower, kStyle)
            \/ includes(topicLower, kOutfit)
    THEN "fashion"
    ELSE IF includes(topicLower, kTech) \/ includes(topicLower, kCode)
            \/ includes(topicLower, kComputer) \/ includes(topicLower, kProgram)
    THEN "tech"
    ELSE IF includes(topicLower, kSing) \/ includes(topicLower, kTalent)
            \/ includes(topicLower, kSkill) \/ includes(topicLower, kVoice)
    THEN "talent"
    ELSE "default"

categoryOf(topicLower) ==
    IF includes(topicLower, kFashion) \/ includes(topicLower, kCloth)
       \/ includes(topicLower, kDress) \/ includes(topicLower, kStyle)
       \/ includes(topicLower, kOutfit)
    THEN "fashion"
    ELSE IF includes(topicLower, kFood) \/ includes(topicLower, kPizza)
            \/ includes(topicLower, kEat) \/ includes(topicLower, kDish)
            \/ includes(topicLower, kPineapple)
    THEN "food"
    ELSE IF includes(topicLower, kTech) \/ includes(topicLower, kCode)
            \/ includes(topicLower, kComputer) \/ includes(topicLower, kProgram)
    THEN "tech"
    ELSE IF includes(topicLower, kSing) \/ includes(topicLower, kTalent)
            \/ includes(topicLower, kSkill) \/ includes(topicLower, kVoice)
    THEN "talent"
    ELSE "default"

\* generateRoast matching on the topic as given, with no toLowerCase.
generateRoast_NoLowerCase(t, draw) ==
    LET category == categoryOf(t)
        randomRoast == roastTemplates[category][draw + 1]
    IN  [roast |-> IF category = "default"
                   THEN "\"" \o text(t) \o "\" " \o randomRoast
                   ELSE randomRoast,
         category |-> category]

\* generateRoast interpolating the lower-cased topic rather than the original.
generateRoast_QuoteLowered(t, draw) ==
    LET topicLower == toLowerCase(t)
        category == categoryOf(topicLower)
        randomRoast == roastTemplates[category][draw + 1]
    IN  [roast |-> IF category = "default"
                   THEN "\"" \o text(topicLower) \o "\" " \o randomRoast
                   ELSE randomRoast,
         category |-> category]

\* generateRoast(topic) with the value of Math.floor(Math.random() * 3) as draw.
generateRoast(t, draw) ==
    LET topicLower == toLowerCase(t)
        category == categoryOf(topicLower)
        roasts == roastTemplates[category]
        randomRoast == roasts[draw + 1]
    IN  [roast |-> IF category = "default"
                   THEN "\"" \o text(t) \o "\" " \o randomRoast
                   ELSE randomRoast,
         category |-> category]

----------------------------------------------------------------------------
(* JavaScript values: req.body.text and the text the pipeline resolves to *)

Undefined == [t |-> "undefined", s |-> <<>>, n |-> 0]

jsString(s) == [t |-> "string", s |-> s, n |-> 0]

jsNumber(n) == [t |-> "number", s |-> <<>>, n |-> n]

jsObject == [t |-> "object", s |-> <<>>, n |-> 0]

\* ToBoolean, as applied by the ! operator.
truthy(v) ==
    CASE v.t = "string" -> v.s # <<>>
      [] v.t = "number" -> v.n # 0
      [] v.t = "object" -> TRUE
      [] OTHER -> FALSE

\* The values of req.body.text a client may send.
TextBodies ==
    {Undefined, jsString(<<>>), jsNumber(0), jsNumber(42), jsObject,
     jsString(<<"p", "i", "z", "z", "a">>), jsString(<<"h", "i">>)}

\* What upload.single('audio') leaves: a file, no file, or an upload error.
Uploads == {"file", "nofile", "rejected"}

\* The text property of the object the speech-recognition pipeline resolves to.
PipelineTexts ==
    {Undefined, jsString(<<>>), jsString(<<" ", " ", " ">>),
     jsString(<<" ", "\t", "\n">>),
     jsString(<<" ", "p", "i", "z", "z", "a">>), jsString(<<"h", "i">>)}

\* The message of the Error the speech-recognition pipeline throws.
PipelineErrors == {"Unsupported audio format", "Out of memory"}

----------------------------------------------------------------------------
(* Requests and responses *)

Req == 1..MaxReq

IdleRequest ==
    [kind |-> "none", pc |-> "idle", body |-> Undefined, file |-> "none",
     atLoading |-> FALSE, atLoaded |-> FALSE, pipelineCalls |-> 0,
     pipelineOutcome |-> "none", pipelineText |-> Undefined,
     pipelineError |-> "",
     roastArgs |-> <<>>, res |-> <<>>]

\* res.status(status).json({ error }) : a body with no success key
errorOnly(status, error) ==
    [status |-> status, keys |-> {"error"}, success |-> FALSE, error |-> error,
     transcript |-> Undefined, roast |-> "", category |-> ""]

\* res.status(status).json({ error, success: false })
failure(status, error) ==
    [status |-> status, keys |-> {"error", "success"}, success |-> FALSE,
     error |-> error, transcript |-> Undefined, roast |-> "", category |-> ""]

\* res.json({ transcript, roast, category, success: true })
success(transcript, data) ==
    [status |-> 200, keys |-> {"transcript", "roast", "category", "success"},
     success |-> TRUE, error |-> "", transcript |-> transcript,
     roast |-> data.roast, category |-> data.category]

NoRoast == [called |-> FALSE, roast |-> "", category |-> ""]

----------------------------------------------------------------------------
(* initializeModel and startServer *)

\* initializeModel without the guard of line 55.
initializeModel_NoGuard ==
    /\ initCalls' = initCalls + 1
    /\ noopCalls' = noopCalls
    /\ modelLoading' = TRUE
    /\ loadsInFlight' = loadsInFlight + 1
    /\ UNCHANGED <<whisperPipeline, modelLoaded>>

\* initializeModel setting modelLoaded as soon as the load starts.
initializeModel_LoadedEarly ==
    /\ initCalls' = initCalls + 1
    /\ IF modelLoading
       THEN /\ noopCalls' = noopCalls + 1
            /\ UNCHANGED <<whisperPipeline, modelLoading, modelLoaded, loadsInFlight>>
       ELSE /\ noopCalls' = noopCalls
            /\ modelLoading' = TRUE
            /\ modelLoaded' = TRUE
            /\ loadsInFlight' = loadsInFlight + 1
            /\ UNCHANGED whisperPipeline

\* A call of initializeModel, up to its await of pipeline(...).
initializeModel ==
    /\ initCalls' = initCalls + 1
    /\ IF modelLoading
       THEN /\ noopCalls' = noopCalls + 1
            /\ UNCHANGED <<whisperPipeline, modelLoading, modelLoaded, loadsInFlight>>
       ELSE /\ noopCalls' = noopCalls
            /\ modelLoading' = TRUE
            /\ loadsInFlight' = loadsInFlight + 1
            /\ UNCHANGED <<whisperPipeline, modelLoaded>>

\* The load succeeding with the finally block left out.
initializeModel_Resolved_NoFinally ==
    /\ loadsInFlight > 0
    /\ loadsInFlight' = loadsInFlight - 1
    /\ whisperPipeline' = "pipeline"
    /\ modelLoaded' = TRUE
    /\ UNCHANGED <<modelLoading, started, initCalls, noopCalls, req, topic, roastData>>

\* pipeline(...) resolves: the rest of the try block, then finally.
initializeModel_Resolved ==
    /\ loadsInFlight > 0
    /\ loadsInFlight' = loadsInFlight - 1
    /\ whisperPipeline' = "pipeline"
    /\ modelLoaded' = TRUE
    /\ modelLoading' = FALSE
    /\ UNCHANGED <<started, initCalls, noopCalls, req, topic, roastData>>

\* pipeline(...) rejects: the catch block, then finally.
initializeModel_Rejected ==
    /\ loadsInFlight > 0
    /\ loadsInFlight' = loadsInFlight - 1
    /\ modelLoaded' = FALSE
    /\ modelLoading' = FALSE
    /\ UNCHANGED <<whisperPipeline, started, initCalls, noopCalls, req, topic, roastData>>

\* startServer: initializeModel() in the background, then app.listen.
startServer ==
    /\ ~started
    /\ started' = TRUE
    /\ initializeModel
    /\ UNCHANGED <<req, topic, roastData>>

\* A further call of initializeModel once the server runs.
initializeModelAgain ==
    /\ started
    /\ initCalls < MaxInitCalls
    /\ initializeModel
    /\ UNCHANGED <<started, req, topic, roastData>>

----------------------------------------------------------------------------
(* POST /api/roast/text *)

\* The handler of lines 147-166: only !text is tested before generateRoast.
PostRoastText(r) ==
    /\ started
    /\ req[r].pc = "idle"
    /\ \E body \in TextBodies, draw \in randomIndex(3) :
         LET q == [req[r] EXCEPT !.kind = "text", !.pc = "done", !.body = body]
         IN  req' = [req EXCEPT ![r] =
                IF ~truthy(body)
                THEN [q EXCEPT !.res = Append(@, errorOnly(400, "Text is required"))]
                ELSE IF body.t # "string"
                THEN \* topic.toLowerCase is not a function: the catch block
                     [q EXCEPT !.roastArgs = Append(@, body),
                               !.res = Append(@, failure(500, "Internal server error"))]
                ELSE [q EXCEPT !.roastArgs = Append(@, body),
                               !.res = Append(@, success(body, generateRoast(body.s, draw)))]]
    /\ UNCHANGED <<whisperPipeline, modelLoading, modelLoaded, loadsInFlight,
                   started, initCalls, noopCalls, topic, roastData>>

\* The handler of lines 388-411: it also tests typeof text.
PostRoastText2(r) ==
    /\ started
    /\ req[r].pc = "idle"
    /\ \E body \in TextBodies, draw \in randomIndex(3) :
         LET q == [req[r] EXCEPT !.kind = "text2", !.pc = "done", !.body = body]
         IN  req' = [req EXCEPT ![r] =
                IF ~truthy(body)
                THEN [q EXCEPT !.res = Append(@, errorOnly(400, "Text is required"))]
                ELSE IF body.t # "string"
                THEN [q EXCEPT !.res = Append(@, errorOnly(400, "Text must be a string"))]
                ELSE [q EXCEPT !.roastArgs = Append(@, body),
                               !.res = Append(@, success(body, generateRoast(body.s, draw)))]]
    /\ UNCHANGED <<whisperPipeline, modelLoading, modelLoaded, loadsInFlight,
                   started, initCalls, noopCalls, topic, roastData>>

----------------------------------------------------------------------------
(* POST /api/roast/audio *)

\* The handler, from upload.single('audio') to its await of whisperPipeline.
PostRoastAudio(r) ==
    /\ started
    /\ req[r].pc = "idle"
    /\ \E up \in Uploads :
         LET q == [req[r] EXCEPT !.kind = "audio", !.file = up,
                                 !.atLoading = modelLoading,
                                 !.atLoaded = modelLoaded]
         IN  req' = [req EXCEPT ![r] =
                IF up = "rejected"
                THEN \* next(error) from multer: the global error handler
                     [q EXCEPT !.pc = "done",
                               !.res = Append(@, failure(500, "Internal server error"))]
                ELSE IF up = "nofile"
                THEN [q EXCEPT !.pc = "done",
                               !.res = Append(@, failure(400, "Audio file is required"))]
                ELSE IF ~modelLoaded
                THEN [q EXCEPT !.pc = "done",
                               !.res = Append(@, failure(503,
                                   "Model not loaded yet. Please try again in a moment."))]
                ELSE IF whisperPipeline = "undefined"
                THEN \* calling undefined throws inside the try block
                     [q EXCEPT !.pc = "done",
                               !.res = Append(@, failure(500,
                                   "Error processing audio: whisperPipeline is not a function"))]
                ELSE [q EXCEPT !.pc = "awaiting", !.pipelineCalls = @ + 1]]
    /\ UNCHANGED <<whisperPipeline, modelLoading, modelLoaded, loadsInFlight,
                   started, initCalls, noopCalls, topic, roastData>>

\* The continuation testing !text only, without text.trim().
PostRoastAudio_Resolved_NoTrim(r) ==
    /\ req[r].pc = "awaiting"
    /\ \E out \in PipelineTexts, draw \in randomIndex(3) :
         LET q == [req[r] EXCEPT !.pc = "done", !.pipelineOutcome = "resolved",
                                 !.pipelineText = out]
         IN  req' = [req EXCEPT ![r] =
                IF ~truthy(out)
                THEN [q EXCEPT !.res = Append(@, failure(400,
                         "Could not transcribe audio. Please try again with clearer audio."))]
                ELSE [q EXCEPT !.roastArgs = Append(@, out),
                               !.res = Append(@, success(out, generateRoast(out.s, draw)))]]
    /\ UNCHANGED <<whisperPipeline, modelLoading, modelLoaded, loadsInFlight,
                   started, initCalls, noopCalls, topic, roastData>>

\* whisperPipeline(...) resolves to { text }: the rest of the try block.
PostRoastAudio_Resolved(r) ==
    /\ req[r].pc = "awaiting"
    /\ \E out \in PipelineTexts, draw \in randomIndex(3) :
         LET q == [req[r] EXCEPT !.pc = "done", !.pipelineOutcome = "resolved",
                                 !.pipelineText = out]
         IN  req' = [req EXCEPT ![r] =
                IF ~truthy(out) \/ Len(trim(out.s)) = 0
                THEN [q EXCEPT !.res = Append(@, failure(400,
                         "Could not transcribe audio. Please try again with clearer audio."))]
                ELSE [q EXCEPT !.roastArgs = Append(@, out),
                               !.res = Append(@, success(out, generateRoast(out.s, draw)))]]
    /\ UNCHANGED <<whisperPipeline, modelLoading, modelLoaded, loadsInFlight,
                   started, initCalls, noopCalls, topic, roastData>>

\* The catch block also marking the model as not loaded.
PostRoastAudio_Rejected_DropsModel(r) ==
    /\ req[r].pc = "awaiting"
    /\ \E msg \in PipelineErrors :
         req' = [req EXCEPT ![r] =
                    [@ EXCEPT !.pc = "done", !.pipelineOutcome = "rejected",
                              !.pipelineError = msg,
                              !.res = Append(@, failure(500,
                                  "Error processing audio: " \o msg))]]
    /\ modelLoaded' = FALSE
    /\ UNCHANGED <<whisperPipeline, modelLoading, loadsInFlight,
                   started, initCalls, noopCalls, topic, roastData>>

\* whisperPipeline(...) throws: the catch block.
PostRoastAudio_Rejected(r) ==
    /\ req[r].pc = "awaiting"
    /\ \E msg \in PipelineErrors :
         req' = [req EXCEPT ![r] =
                    [@ EXCEPT !.pc = "done", !.pipelineOutcome = "rejected",
                              !.pipelineError = msg,
                              !.res = Append(@, failure(500,
                                  "Error processing audio: " \o msg))]]
    /\ UNCHANGED <<whisperPipeline, modelLoading, modelLoaded, loadsInFlight,
                   started, initCalls, noopCalls, topic, roastData>>

----------------------------------------------------------------------------
(* The server *)

Init ==
    /\ whisperPipeline = "undefined"
    /\ modelLoading = FALSE
    /\ modelLoaded = FALSE
    /\ loadsInFlight = 0
    /\ started = FALSE
    /\ initCalls = 0
    /\ noopCalls = 0
    /\ req = [r \in Req |-> IdleRequest]
    /\ topic = <<>>
    /\ roastData = NoRoast

Next ==
    \/ startServer
    \/ initializeModel_Resolved
    \/ initializeModel_Rejected
    \/ \E r \in Req : PostRoastText(r)
    \/ \E r \in Req : PostRoastText2(r)
    \/ \E r \in Req : PostRoastAudio(r)
    \/ \E r \in Req : PostRoastAudio_Resolved(r)
    \/ \E r \in Req : PostRoastAudio_Rejected(r)

Spec == Init /\ [][Next]_vars

\* The loader and the audio endpoint, which reads its flags, with
\* initializeModel called again at any time.
NextCalls ==
    \/ startServer
    \/ initializeModelAgain
    \/ initializeModel_Resolved
    \/ initializeModel_Rejected
    \/ \E r \in Req : PostRoastAudio(r)
    \/ \E r \in Req : PostRoastAudio_Resolved(r)
    \/ \E r \in Req : PostRoastAudio_Rejected(r)

SpecCalls == Init /\ [][NextCalls]_vars

----------------------------------------------------------------------------
(* The classifier on its own: generateRoast applied to a topic *)

Tokens ==
    {<<"m", "y", " ">>, <<"p", "i", "z", "z", "a", " ">>,
     <<"P", "i", "Z", "z", "A">>, <<"o", "u", "t", "f", "i", "t">>,
     <<"S", "t", "y", "l", "e", " ">>, <<"c", "o", "d", "e">>,
     <<"s", "i", "n", "g">>, <<"g", "r", "e", "a", "t">>, <<"H", "i">>}

RECURSIVE TopicsOf(_)
TopicsOf(n) ==
    IF n = 0
    THEN {<<>>}
    ELSE LET shorter == TopicsOf(n - 1)
         IN  shorter \cup {p \o t : p \in shorter, t \in Tokens}

Topics == TopicsOf(MaxTokens)

InitRoast ==
    /\ whisperPipeline = "undefined"
    /\ modelLoading = FALSE
    /\ modelLoaded = FALSE
    /\ loadsInFlight = 0
    /\ started = FALSE
    /\ initCalls = 0
    /\ noopCalls = 0
    /\ req = [r \in Req |-> IdleRequest]
    /\ topic \in Topics
    /\ roastData = NoRoast

classify ==
    /\ \E draw \in randomIndex(3) :
         LET data == generateRoast(topic, draw)
         IN  roastData' = [called |-> TRUE, roast |-> data.roast,
                           category |-> data.category]
    /\ UNCHANGED <<whisperPipeline, modelLoading, modelLoaded, loadsInFlight,
                   started, initCalls, noopCalls, req, topic>>

NextRoast == classify

SpecRoast == InitRoast /\ [][NextRoast]_vars

----------------------------------------------------------------------------
(* The keyword table of generateRoast, category by category *)

Keywords ==
    [fashion |-> {kFashion, kCloth, kDress, kStyle, kOutfit},
     food |-> {kFood, kPizza, kEat, kDish, kPineapple},
     tech |-> {kTech, kCode, kComputer, kProgram},
     talent |-> {kSing, kTalent, kSkill, kVoice}]

\* The order in which the if / else-if chain tests the categories.
Order == <<"fashion", "food", "tech", "talent">>

----------------------------------------------------------------------------
(* Properties of generateRoast, under SpecRoast *)

matches(c) == \E k \in Keywords[c] : includes(toLowerCase(topic), k)

matched == {i \in 1..Len(Order) : matches(Order[i])}

\* C2: a topic whose lower-cased text holds keywords of two or more
\* categories gets the category tested first among those it matches, in the
\* order fashion, food, tech, talent.
C2_EarliestCategoryWins ==
    (roastData.called /\ Cardinality(matched) >= 2)
        => \E i \in matched :
              /\ \A j \in matched : i <= j
              /\ roastData.category = Order[i]

\* "my pizza outfit" has been classified, as fashion.
C2_Witness ==
    /\ roastData.called
    /\ topic = <<"m", "y", " ", "p", "i", "z", "z", "a", " ",
                 "o", "u", "t", "f", "i", "t">>
    /\ matches("fashion") /\ matches("food")
    /\ roastData.category = "fashion"

\* C3 as stated: every topic containing "pizza" in any letter case is
\* classified as food.
C3_PizzaIsFood ==
    (roastData.called /\ includes(toLowerCase(topic), kPizza))
        => roastData.category = "food"

\* C3 as amended: every topic containing "pizza" in any letter case and no
\* fashion keyword is classified as food.
C3_PizzaIsFoodUnlessFashion ==
    (roastData.called /\ includes(toLowerCase(topic), kPizza)
        /\ ~matches("fashion"))
        => roastData.category = "food"

\* A topic spelling pizza with capitals, and no fashion keyword, classified.
C3_Witness ==
    /\ roastData.called
    /\ includes(toLowerCase(topic), kPizza)
    /\ ~includes(topic, kPizza)
    /\ ~matches("fashion")
    /\ roastData.category = "food"

\* C4: the roast is, for the default category, the topic as given in double
\* quotes, a space and one of the three default fragments; for a named
\* category it is one of that category's three sentences and nothing else.
C4_RoastAssembledByCategory ==
    roastData.called
        => /\ roastData.category \in {"fashion", "food", "tech", "talent", "default"}
           /\ Len(roastTemplates[roastData.category]) = 3
           /\ IF roastData.category = "default"
              THEN \E i \in 1..3 :
                     roastData.roast
                        = "\"" \o text(topic) \o "\" " \o roastTemplates["default"][i]
              ELSE \E i \in 1..3 :
                     roastData.roast = roastTemplates[roastData.category][i]

\* A default roast of a topic written with capitals, and so quoted as given.
C4_Witness ==
    /\ roastData.called
    /\ roastData.category = "default"
    /\ topic # <<>>
    /\ topic # toLowerCase(topic)

----------------------------------------------------------------------------
(* Properties of the endpoints and of the loader *)

handled(r) == req[r].pc # "idle"

answered(r) == req[r].pc = "done"

blank(s) == \A i \in 1..Len(s) : s[i] \in WhiteSpace

NotReadyMessage == "Model not loaded yet. Please try again in a moment."

EmptyMessage == "Could not transcribe audio. Please try again with clearer audio."

\* C1: an audio request with a file, handled while the flags say loading or
\* not loaded, is answered at once with 503 and the pipeline is not invoked.
C1_NotReadyRejected ==
    \A r \in Req :
        (handled(r) /\ req[r].kind = "audio" /\ req[r].file = "file"
            /\ (req[r].atLoading \/ ~req[r].atLoaded))
        => /\ answered(r)
           /\ req[r].pipelineCalls = 0
           /\ req[r].pipelineOutcome = "none"
           /\ Len(req[r].res) = 1
           /\ req[r].res[1].status = 503
           /\ req[r].res[1].success = FALSE
           /\ req[r].res[1].error = NotReadyMessage

\* One audio request was turned away during the load, another after a
\* failed load.
C1_Witness ==
    \E r, q \in Req :
        /\ req[r].kind = "audio" /\ req[r].file = "file"
        /\ req[r].atLoading /\ req[r].res[1].status = 503
        /\ req[q].kind = "audio" /\ req[q].file = "file"
        /\ ~req[q].atLoading /\ ~req[q].atLoaded /\ req[q].res[1].status = 503

\* C5: when the pipeline resolves to empty or whitespace-only text the
\* request ends with the "could not transcribe" failure, which is neither the
\* not-ready failure nor a success; generateRoast is not called, and no
\* success response carries a blank transcript.
C5_EmptyTranscriptionFails ==
    \A r \in Req :
        /\ (req[r].kind = "audio" /\ req[r].pipelineOutcome = "resolved"
                /\ req[r].pipelineText.t = "string" /\ blank(req[r].pipelineText.s))
           => /\ req[r].atLoaded
              /\ answered(r)
              /\ req[r].roastArgs = <<>>
              /\ Len(req[r].res) = 1
              /\ req[r].res[1].success = FALSE
              /\ "success" \in req[r].res[1].keys
              /\ req[r].res[1].error = EmptyMessage
              /\ req[r].res[1].error # NotReadyMessage
              /\ req[r].res[1].status \notin {200, 503}
        /\ \A i \in 1..Len(req[r].res) :
              (req[r].kind = "audio" /\ req[r].res[i].success)
                 => ~blank(req[r].res[i].transcript.s)

\* The pipeline resolved to whitespace only and the request failed.
C5_Witness ==
    \E r \in Req :
        /\ req[r].kind = "audio" /\ req[r].pipelineOutcome = "resolved"
        /\ req[r].pipelineText = jsString(<<" ", " ", " ">>)
        /\ req[r].res[1].error = EmptyMessage

\* C6: a text request whose text is missing, empty or not a string is
\* answered with 400 and generateRoast is not called with it.
C6_InvalidTextRejected ==
    \A r \in Req :
        (answered(r) /\ req[r].kind \in {"text", "text2"}
            /\ (req[r].body.t # "string" \/ req[r].body.s = <<>>))
        => /\ req[r].roastArgs = <<>>
           /\ Len(req[r].res) = 1
           /\ req[r].res[1].status = 400

successShape(res) ==
    /\ res.keys = {"transcript", "roast", "category", "success"}
    /\ res.success = TRUE

failureShape(res) ==
    /\ res.keys = {"error", "success"}
    /\ res.success = FALSE
    /\ res.status \in {400, 503, 500}

\* C7: every request of the text and audio endpoints gets exactly one
\* response, either the success result or a failure result that carries
\* success: false and a status of 400, 503 or 500.
C7_ResponseShapes ==
    \A r \in Req :
        /\ Len(req[r].res) <= 1
        /\ answered(r)
           => /\ Len(req[r].res) = 1
              /\ successShape(req[r].res[1]) \/ failureShape(req[r].res[1])

AdapterState ==
    IF modelLoading /\ modelLoaded THEN "BOTH"
    ELSE IF modelLoading THEN "LOADING"
    ELSE IF modelLoaded THEN "LOADED"
    ELSE "NOT_LOADED"

AdapterStep ==
    LET from == AdapterState
        to == AdapterState'
    IN  \/ to = from
        \/ from = "NOT_LOADED" /\ to = "LOADING"
        \/ from = "LOADING" /\ to = "LOADED"
        \/ from = "LOADING" /\ to = "NOT_LOADED"

\* C8: modelLoading and modelLoaded are never both true; the pair moves only
\* not-loaded -> loading -> loaded or loading -> not-loaded; once loaded it
\* stays loaded.
C8_LoadStateMachine ==
    /\ [](AdapterState # "BOTH")
    /\ [][AdapterStep]_vars
    /\ [][AdapterState = "LOADED" => AdapterState' = "LOADED"]_vars

\* The load has finished and the model is loaded.
C8_Witness ==
    /\ AdapterState = "LOADED"
    /\ whisperPipeline = "pipeline"
    /\ loadsInFlight = 0

\* C9: a call of initializeModel made while a load is in progress changes
\* none of modelLoading, modelLoaded and whisperPipeline and starts no load;
\* at most one load is in flight at any time.
C9_InitializeIdempotent ==
    /\ [][(initCalls' # initCalls /\ modelLoading)
            => /\ UNCHANGED <<whisperPipeline, modelLoading, modelLoaded>>
               /\ loadsInFlight' = loadsInFlight]_vars
    /\ [](loadsInFlight <= 1)

\* initializeModel was called during a load, which is still the only one.
C9_Witness ==
    /\ noopCalls > 0
    /\ modelLoading
    /\ loadsInFlight = 1

throws(r) ==
    req[r].pipelineOutcome # "rejected" /\ req'[r].pipelineOutcome = "rejected"

\* C10: when the pipeline throws, the request is answered once with 500,
\* success false and the underlying message, after a single invocation of
\* the pipeline and without a transcript or roast; the step changes neither
\* the load flags, the model handle nor any other request.
C10_FailureIsLocal ==
    /\ [](\A r \in Req :
            req[r].pipelineOutcome = "rejected"
            => /\ answered(r)
               /\ req[r].pipelineCalls = 1
               /\ req[r].roastArgs = <<>>
               /\ Len(req[r].res) = 1
               /\ req[r].res[1].status = 500
               /\ req[r].res[1].keys = {"error", "success"}
               /\ req[r].res[1].success = FALSE
               /\ req[r].res[1].error
                     = "Error processing audio: " \o req[r].pipelineError)
    /\ [][\A r \in Req :
            throws(r)
            => /\ UNCHANGED <<whisperPipeline, modelLoading, modelLoaded, loadsInFlight>>
               /\ \A q \in Req \ {r} : req'[q] = req[q]]_vars

\* One audio request failed in the pipeline and another one succeeded.
C10_Witness ==
    \E r, q \in Req :
        /\ req[r].pipelineOutcome = "rejected"
        /\ req[r].res[1].status = 500
        /\ req[q].kind = "audio"
        /\ req[q].res # <<>>
        /\ req[q].res[1].success
        /\ modelLoaded

====
